---------------------------- MODULE Spec2Model ----------------------------
(***************************************************************************)
(* Connected components from an edge list (src/dicts.py).                  *)
(*                                                                         *)
(* Vertices are the labels 0, 1, 2, ... (the source uses strings; only     *)
(* equality and hashing of a vertex are ever used).  An edge is a          *)
(* pair <<source, dest>>, an edge list a sequence of edges.                *)
(*                                                                         *)
(* A Python dict is modelled as a record [keys, val]: keys is the sequence *)
(* of keys in insertion order (the order `for k in d` yields them) and val *)
(* the mapping.  A dict whose values are list OBJECTS (components_dict,    *)
(* components_quickfind, ...) is modelled with a heap: val maps a key to a *)
(* reference (an index into heap), heap[r] is the list's content, so that  *)
(* `is` is equality of references and `+=`/extend/append change the one    *)
(* object every alias sees.                                                *)
(*                                                                         *)
(* Spec, SpecUnionFind and SpecTraversal run each function as one step     *)
(* from its call to its return (components() edge by edge).  SpecQuickFind,*)
(* SpecQuickUnion, SpecDictAlt2 and SpecSearch run components_quickfind,   *)
(* components_quickfind_classic, components_quickunion,                    *)
(* components_dict_alt2, components_stack and components_bfs step by step, *)
(* with their locals as variables, from the same operators.                *)
(***************************************************************************)
EXTENDS Integers, Sequences, FiniteSets, TLC

\* ------------------------------------------------------------- bounds
MaxInput == 3
MaxChain == 5

\* The largest label among those of a sequence of labels, -1 when none.
TopOf(labels) ==
    IF labels = {} THEN -1 ELSE CHOOSE x \in labels : \A y \in labels : y <= x

Endpoints(es) == {es[k][1] : k \in DOMAIN es} \cup {es[k][2] : k \in DOMAIN es}

\* The ways to extend an edge list by one edge whose new vertices take the
\* next unused labels.
Extensions(es) ==
    LET m == TopOf(Endpoints(es))
    IN {Append(es, <<a, b>>) : a \in 0 .. m, b \in 0 .. (m + 1)}
       \cup {Append(es, <<m + 1, b>>) : b \in 0 .. (m + 2)}

\* The edge lists of exactly n edges, one for each way of naming the
\* vertices: the vertices are labelled 0, 1, 2, ... in the order in which
\* they first occur, so every edge list of n edges is one of these up to a
\* renaming of its vertices (the source only hashes and compares a vertex).
RECURSIVE EdgeListsOf(_)
EdgeListsOf(n) ==
    IF n = 0 THEN {<<>>}
    ELSE UNION {Extensions(es) : es \in EdgeListsOf(n - 1)}

\* Every such edge list of at most MaxInput edges.
EdgeLists == UNION {EdgeListsOf(n) : n \in 0 .. MaxInput}

\* The vertex lists of exactly n vertices to go with edge list es, labelled
\* in the same way: a vertex is one already named or takes the next label.
RECURSIVE VertexListsOf(_, _)
VertexListsOf(es, n) ==
    IF n = 0 THEN {<<>>}
    ELSE UNION {{Append(vs, x) :
                    x \in 0 .. (TopOf(Endpoints(es) \cup {vs[k] : k \in DOMAIN vs}) + 1)}
                : vs \in VertexListsOf(es, n - 1)}

\* Every (edges, vertices) argument pair of at most MaxInput items in all.
VertexLists(es) ==
    IF Len(es) >= MaxInput THEN {<<>>}
    ELSE UNION {VertexListsOf(es, n) : n \in 0 .. (MaxInput - Len(es))}

\* The call-depth limits of the host (sys.getrecursionlimit(), scaled): the
\* number of nested Python frames a components_* function may open below
\* itself.  Limits go with the edge lists of EdgeLists, DeepLimits with the
\* chains of devious(); the largest of each lets every recursion finish.
Limits == 1 .. (MaxInput + 2)
DeepLimits == 1 .. (MaxChain + 2)

\* The order in which `for x in some_set` yields the elements is
\* unspecified; the calls draw it from these two.
SetOrders == {"asc", "desc"}

\* ------------------------------------------------------------ helpers
Range(s) == {s[k] : k \in DOMAIN s}

Min(S) == CHOOSE x \in S : \A y \in S : x <= y
Max(S) == CHOOSE x \in S : \A y \in S : y <= x

\* The elements of set S as the sequence a for-loop over it yields.
RECURSIVE SetIter(_, _)
SetIter(S, ord) ==
    IF S = {} THEN <<>>
    ELSE LET x == IF ord = "asc" THEN Min(S) ELSE Max(S)
         IN <<x>> \o SetIter(S \ {x}, ord)

\* ---------------------------------------------- reference semantics
\* (spec.md, Glossary: "Component: maximal set of vertices mutually
\* reachable via edges, ignoring direction.")
Linked(es, x, y) ==
    \E k \in DOMAIN es : \/ es[k] = <<x, y>>
                         \/ es[k] = <<y, x>>

RECURSIVE ReachFrom(_, _)
ReachFrom(es, S) ==
    LET T == S \cup {y \in Endpoints(es) : \E x \in S : Linked(es, x, y)}
    IN IF T = S THEN S ELSE ReachFrom(es, T)

\* The classes of undirected reachability over the endpoints of es and vs.
ReachClasses(es, vs) ==
    {ReachFrom(es, {x}) : x \in Endpoints(es) \cup Range(vs)}

\* ------------------------------------------------------- Python dict
EmptyDict == [keys |-> <<>>, val |-> <<>>]

Has(d, k) == k \in Range(d.keys)

\* d[k] = v
Put(d, k, v) ==
    [keys |-> IF Has(d, k) THEN d.keys ELSE Append(d.keys, k),
     val  |-> [x \in Range(d.keys) \cup {k} |-> IF x = k THEN v ELSE d.val[x]]]

Keys(d) == Range(d.keys)

\* ---------------------------------------------------------- adjacency
\* adjacency(), one iteration of `for source, dest in edges`.
adjacency_edge(adj_list, source, dest, directed) ==
    LET a1 == IF Has(adj_list, source)
              THEN Put(adj_list, source, adj_list.val[source] \cup {dest})
              ELSE Put(adj_list, source, {dest})
    IN IF directed THEN a1
       ELSE IF Has(a1, dest)
            THEN Put(a1, dest, a1.val[dest] \cup {source})
            ELSE Put(a1, dest, {source})

RECURSIVE adjacency_edges(_, _, _, _)
adjacency_edges(adj_list, es, k, directed) ==
    IF k > Len(es) THEN adj_list
    ELSE adjacency_edges(adjacency_edge(adj_list, es[k][1], es[k][2], directed),
                         es, k + 1, directed)

\* Mutant of adjacency_vertices: every supplied vertex is given an empty
\* set, also one that has neighbours already.
RECURSIVE adjacency_vertices_overwrite(_, _, _)
adjacency_vertices_overwrite(adj_list, vs, k) ==
    IF k > Len(vs) THEN adj_list
    ELSE adjacency_vertices_overwrite(Put(adj_list, vs[k], {}), vs, k + 1)

\* adjacency(), the loop `for vertex in vertices`.
RECURSIVE adjacency_vertices(_, _, _)
adjacency_vertices(adj_list, vs, k) ==
    IF k > Len(vs) THEN adj_list
    ELSE adjacency_vertices(IF Has(adj_list, vs[k]) THEN adj_list
                            ELSE Put(adj_list, vs[k], {}),
                            vs, k + 1)

adjacency(es, vs, directed) ==
    adjacency_vertices(adjacency_edges(EmptyDict, es, 1, directed), vs, 1)

\* Mutant of adjacency_undirected_edges: only adj[u].add(v), the edge is
\* entered in one direction.
RECURSIVE adjacency_undirected_oneway(_, _, _)
adjacency_undirected_oneway(adj, es, k) ==
    IF k > Len(es) THEN adj
    ELSE LET u == es[k][1]
             v == es[k][2]
         IN adjacency_undirected_oneway(
                Put(adj, u, (IF Has(adj, u) THEN adj.val[u] ELSE {}) \cup {v}),
                es, k + 1)

\* adjacency_undirected(): a defaultdict(set); adj[u].add(v) inserts u when
\* it is missing, then adj[v].add(u) inserts v.
RECURSIVE adjacency_undirected_edges(_, _, _)
adjacency_undirected_edges(adj, es, k) ==
    IF k > Len(es) THEN adj
    ELSE LET u == es[k][1]
             v == es[k][2]
             a1 == Put(adj, u, (IF Has(adj, u) THEN adj.val[u] ELSE {}) \cup {v})
             a2 == Put(a1, v, (IF Has(a1, v) THEN a1.val[v] ELSE {}) \cup {u})
         IN adjacency_undirected_edges(a2, es, k + 1)

adjacency_undirected(es) == adjacency_undirected_edges(EmptyDict, es, 1)

\* --------------------------------------------------------- components
\* del a_list[n]
DeleteAt(s, n) == [k \in 1 .. (Len(s) - 1) |-> IF k < n THEN s[k] ELSE s[k + 1]]

\* Mutant of components_scan: the scan stops at the first component that
\* holds an endpoint, so two components the edge joins are never united.
RECURSIVE components_scan_first(_, _, _, _, _)
components_scan_first(comp_list, a, b, n, found) ==
    IF n > Len(comp_list) THEN [comp_list |-> comp_list, found |-> found]
    ELSE IF a \in comp_list[n] \/ b \in comp_list[n]
         THEN [comp_list |-> [comp_list EXCEPT ![n] = @ \cup {a, b}], found |-> n]
         ELSE components_scan_first(comp_list, a, b, n + 1, found)

\* components(), the loop `for n, component in enumerate(comp_list)` from
\* position n on.  found = 0 stands for None; positions count from 1.
RECURSIVE components_scan(_, _, _, _, _)
components_scan(comp_list, a, b, n, found) ==
    IF n > Len(comp_list) THEN [comp_list |-> comp_list, found |-> found]
    ELSE LET component == comp_list[n]
         IN IF a \in component /\ b \notin component
            THEN LET cl == [comp_list EXCEPT ![n] = @ \cup {b}]
                 IN IF found = 0
                    THEN components_scan(cl, a, b, n + 1, n)
                    ELSE [comp_list |-> DeleteAt([cl EXCEPT ![found] = @ \cup cl[n]], n),
                          found |-> found]
            ELSE IF a \notin component /\ b \in component
            THEN LET cl == [comp_list EXCEPT ![n] = @ \cup {a}]
                 IN IF found = 0
                    THEN components_scan(cl, a, b, n + 1, n)
                    ELSE [comp_list |-> DeleteAt([cl EXCEPT ![found] = @ \cup cl[n]], n),
                          found |-> found]
            ELSE IF a \in component /\ b \in component
            THEN [comp_list |-> comp_list, found |-> n]
            ELSE components_scan(comp_list, a, b, n + 1, found)

\* components(), one iteration of `for a, b in edges`.
components_edge(comp_list, a, b) ==
    LET r == components_scan(comp_list, a, b, 1, 0)
    IN IF r.found = 0 THEN Append(r.comp_list, {a, b}) ELSE r.comp_list

RECURSIVE components_loop(_, _, _)
components_loop(comp_list, es, k) ==
    IF k > Len(es) THEN comp_list
    ELSE components_loop(components_edge(comp_list, es[k][1], es[k][2]), es, k + 1)

\* components(): the set of the frozen members of comp_list.
components(es) == Range(components_loop(<<>>, es, 1))

\* ------------------------------------------- dicts of list objects
\* comp_dict = {} with no list allocated.
EmptyRefDict == [keys |-> <<>>, val |-> <<>>, heap |-> <<>>]

\* d[k] = <a new list with content c>
PutNew(d, k, c) ==
    [keys |-> IF Has(d, k) THEN d.keys ELSE Append(d.keys, k),
     val  |-> [x \in Range(d.keys) \cup {k} |->
                  IF x = k THEN Len(d.heap) + 1 ELSE d.val[x]],
     heap |-> Append(d.heap, c)]

\* d[k] = <the list object r>
PutRef(d, k, r) ==
    [keys |-> IF Has(d, k) THEN d.keys ELSE Append(d.keys, k),
     val  |-> [x \in Range(d.keys) \cup {k} |-> IF x = k THEN r ELSE d.val[x]],
     heap |-> d.heap]

\* The list d[k].
ListOf(d, k) == d.heap[d.val[k]]

\* `for elm in <list>: comp_dict[elm] = comp_dict[big]`, from position k of
\* the content being iterated.
RECURSIVE repoint(_, _, _, _)
repoint(d, content, k, big) ==
    IF k > Len(content) THEN d
    ELSE repoint(PutRef(d, content[k], d.val[big]), content, k + 1, big)

\* Mutant of dict_meld: only the key small is repointed, not every member
\* of the small list.
dict_meld_one(d, source, dest) ==
    LET small == IF Len(ListOf(d, source)) < Len(ListOf(d, dest)) THEN source ELSE dest
        big == IF Len(ListOf(d, source)) < Len(ListOf(d, dest)) THEN dest ELSE source
        d1 == [d EXCEPT !.heap[d.val[big]] = @ \o ListOf(d, small)]
    IN PutRef(d1, small, d1.val[big])

\* The meld of components_dict (and, with the same text, of
\* components_dict_alt and components_dict_alt2): pick small and big by
\* length, comp_dict[big] += comp_dict[small], then repoint the members
\* of the small list.
dict_meld(d, source, dest) ==
    LET small == IF Len(ListOf(d, source)) < Len(ListOf(d, dest)) THEN source ELSE dest
        big == IF Len(ListOf(d, source)) < Len(ListOf(d, dest)) THEN dest ELSE source
        moved == ListOf(d, small)
        d1 == [d EXCEPT !.heap[d.val[big]] = @ \o moved]
    IN repoint(d1, moved, 1, big)

\* components_dict(), one iteration of `for source, dest in edges`.
components_dict_edge(d, source, dest) ==
    IF Has(d, source) /\ Has(d, dest)
    THEN IF d.val[source] # d.val[dest] THEN dict_meld(d, source, dest) ELSE d
    ELSE IF Has(d, source)
    THEN [d EXCEPT !.heap[d.val[source]] = Append(@, dest)]
    ELSE IF Has(d, dest)
    THEN [d EXCEPT !.heap[d.val[dest]] = Append(@, source)]
    ELSE LET d1 == PutNew(d, source, <<source, dest>>)
         IN PutRef(d1, dest, d1.val[source])

RECURSIVE components_dict_edges(_, _, _)
components_dict_edges(d, es, k) ==
    IF k > Len(es) THEN d
    ELSE components_dict_edges(components_dict_edge(d, es[k][1], es[k][2]), es, k + 1)

\* components_dict(), the loop `for vertex in vertices`.
RECURSIVE components_dict_vertices(_, _, _)
components_dict_vertices(d, vs, k) ==
    IF k > Len(vs) THEN d
    ELSE components_dict_vertices(IF Has(d, vs[k]) THEN d
                                  ELSE PutNew(d, vs[k], <<vs[k]>>),
                                  vs, k + 1)

components_dict(es, vs) ==
    components_dict_vertices(components_dict_edges(EmptyRefDict, es, 1), vs, 1)

\* _setofsets(): the values, distinct by id, each frozen.
setofsets(d) == {Range(d.heap[r]) : r \in {d.val[k] : k \in Keys(d)}}

components_d(es, vs) == setofsets(components_dict(es, vs))

\* components_dict_alt(), the two loops that make the singleton lists.
RECURSIVE singletons_edges(_, _, _)
singletons_edges(d, es, k) ==
    IF k > Len(es) THEN d
    ELSE singletons_edges(PutNew(PutNew(d, es[k][1], <<es[k][1]>>),
                                 es[k][2], <<es[k][2]>>),
                          es, k + 1)

RECURSIVE singletons_vertices(_, _, _)
singletons_vertices(d, vs, k) ==
    IF k > Len(vs) THEN d
    ELSE singletons_vertices(PutNew(d, vs[k], <<vs[k]>>), vs, k + 1)

\* components_dict_alt(), the second loop `for source, dest in edges`.
RECURSIVE components_dict_alt_edges(_, _, _)
components_dict_alt_edges(d, es, k) ==
    IF k > Len(es) THEN d
    ELSE LET source == es[k][1]
             dest == es[k][2]
         IN components_dict_alt_edges(
                IF d.val[source] # d.val[dest] THEN dict_meld(d, source, dest) ELSE d,
                es, k + 1)

components_dict_alt(es, vs) ==
    components_dict_alt_edges(
        singletons_vertices(singletons_edges(EmptyRefDict, es, 1), vs, 1), es, 1)

\* Mutant of components_dict_alt2_edge: the vertices are compared, not the
\* first elements of their lists.
components_dict_alt2_edge_keys(d, source, dest) ==
    IF source # dest THEN dict_meld(d, source, dest) ELSE d

\* components_dict_alt2(), one iteration of the second loop
\* `for source, dest in edges`.
components_dict_alt2_edge(d, source, dest) ==
    IF ListOf(d, source)[1] # ListOf(d, dest)[1]
    THEN dict_meld(d, source, dest)
    ELSE d

RECURSIVE components_dict_alt2_edges(_, _, _)
components_dict_alt2_edges(d, es, k) ==
    IF k > Len(es) THEN d
    ELSE components_dict_alt2_edges(
             components_dict_alt2_edge(d, es[k][1], es[k][2]), es, k + 1)

components_dict_alt2(es, vs) ==
    components_dict_alt2_edges(
        singletons_vertices(singletons_edges(EmptyRefDict, es, 1), vs, 1), es, 1)

\* ----------------------------------------------- components_quickfind
\* join(to_set, from_set); the lists are given by reference.
RECURSIVE join_repoint(_, _, _, _)
join_repoint(sets, content, k, to_set) ==
    IF k > Len(content) THEN sets
    ELSE join_repoint(PutRef(sets, content[k], to_set), content, k + 1, to_set)

\* Mutant of join: the members are repointed and to_set is not extended.
join_forgets_extend(sets, to_set, from_set) ==
    join_repoint(sets, sets.heap[from_set], 1, to_set)

join(sets, to_set, from_set) ==
    LET s1 == join_repoint(sets, sets.heap[from_set], 1, to_set)
    IN [s1 EXCEPT !.heap[to_set] = @ \o s1.heap[from_set]]

\* Mutant of quickfind_edge: the comparison of the lengths is turned round,
\* so the larger set is melded into the smaller.
quickfind_edge_larger(sets, u, v) ==
    LET u_set == sets.val[u]
        v_set == sets.val[v]
    IN IF u_set = v_set THEN sets
       ELSE IF Len(sets.heap[u_set]) > Len(sets.heap[v_set])
            THEN join(sets, v_set, u_set)
            ELSE join(sets, u_set, v_set)

\* One iteration of `for u, v in edges`.
quickfind_edge(sets, u, v) ==
    LET u_set == sets.val[u]
        v_set == sets.val[v]
    IN IF u_set = v_set THEN sets
       ELSE IF Len(sets.heap[u_set]) < Len(sets.heap[v_set])
            THEN join(sets, v_set, u_set)
            ELSE join(sets, u_set, v_set)

RECURSIVE quickfind_edges(_, _, _)
quickfind_edges(sets, es, k) ==
    IF k > Len(es) THEN sets
    ELSE quickfind_edges(quickfind_edge(sets, es[k][1], es[k][2]), es, k + 1)

components_quickfind(es) ==
    setofsets(quickfind_edges(singletons_edges(EmptyRefDict, es, 1), es, 1))

\* --------------------------------------- components_quickfind_classic
\* representatives = {vertex: vertex ...}; chains = {vertex: [vertex] ...}
RECURSIVE classic_init(_, _, _)
classic_init(representatives, es, k) ==
    IF k > Len(es) THEN representatives
    ELSE classic_init(Put(Put(representatives, es[k][1], es[k][1]),
                          es[k][2], es[k][2]),
                      es, k + 1)

classic_start(es) ==
    LET representatives == classic_init(EmptyDict, es, 1)
    IN [representatives |-> representatives,
        chains |-> [keys |-> representatives.keys,
                    val  |-> [x \in Keys(representatives) |-> <<x>>]]]

RECURSIVE join_to_repoint(_, _, _, _)
join_to_repoint(representatives, chain, k, to_vertex) ==
    IF k > Len(chain) THEN representatives
    ELSE join_to_repoint(Put(representatives, chain[k], to_vertex),
                         chain, k + 1, to_vertex)

\* Mutant of join_to: only from_vertex itself is given the new
\* representative, not every vertex of its chain.
join_to_head_only(st, to_vertex, from_vertex) ==
    [representatives |-> Put(st.representatives, from_vertex, to_vertex),
     chains |-> Put(st.chains, to_vertex,
                    st.chains.val[to_vertex] \o st.chains.val[from_vertex])]

join_to(st, to_vertex, from_vertex) ==
    [representatives |-> join_to_repoint(st.representatives,
                                         st.chains.val[from_vertex], 1, to_vertex),
     chains |-> Put(st.chains, to_vertex,
                    st.chains.val[to_vertex] \o st.chains.val[from_vertex])]

classic_union(st, u0, v0) ==
    LET u == st.representatives.val[u0]
        v == st.representatives.val[v0]
    IN IF u = v THEN st
       ELSE IF Len(st.chains.val[u]) < Len(st.chains.val[v])
            THEN join_to(st, v, u)
            ELSE join_to(st, u, v)

RECURSIVE classic_edges(_, _, _)
classic_edges(st, es, k) ==
    IF k > Len(es) THEN st
    ELSE classic_edges(classic_union(st, es[k][1], es[k][2]), es, k + 1)

components_quickfind_classic(es) ==
    LET st == classic_edges(classic_start(es), es, 1)
        canonical_vertices == {st.representatives.val[x] : x \in Keys(st.representatives)}
    IN {Range(st.chains.val[vertex]) : vertex \in canonical_vertices}

\* ---------------------------------------------- components_quickunion
\* Mutant of find: the root is found and no parent is changed.
RECURSIVE find_no_compress(_, _)
find_no_compress(parents, elem) ==
    IF elem # parents.val[elem]
    THEN find_no_compress(parents, parents.val[elem])
    ELSE [parents |-> parents, root |-> parents.val[elem]]

\* find(elem), with its path compression: the parents afterwards and the
\* value returned.
RECURSIVE find(_, _)
find(parents, elem) ==
    IF elem # parents.val[elem]
    THEN LET r == find(parents, parents.val[elem])
             p == Put(r.parents, elem, r.root)
         IN [parents |-> p, root |-> p.val[elem]]
    ELSE [parents |-> parents, root |-> parents.val[elem]]

\* Mutant of union: v is attached as it is given, not its root.
union_attaches_node(st, u0, v0) ==
    LET fu == find(st.parents, u0)
        u == fu.root
        v == v0
        parents == fu.parents
        ranks == st.ranks
    IN IF u = v THEN [parents |-> parents, ranks |-> ranks]
       ELSE IF ranks.val[u] < ranks.val[v]
            THEN [parents |-> Put(parents, u, v), ranks |-> ranks]
            ELSE [parents |-> Put(parents, v, u),
                  ranks |-> IF ranks.val[u] = ranks.val[v]
                            THEN Put(ranks, u, ranks.val[u] + 1)
                            ELSE ranks]

\* Mutant of union_link: when the ranks are equal u goes under v (and v's
\* rank grows), not v under u.
union_link_under_v(parents, ranks, u, v) ==
    IF u = v THEN [parents |-> parents, ranks |-> ranks]
    ELSE IF ranks.val[u] <= ranks.val[v]
         THEN [parents |-> Put(parents, u, v),
               ranks |-> IF ranks.val[u] = ranks.val[v]
                         THEN Put(ranks, v, ranks.val[v] + 1)
                         ELSE ranks]
         ELSE [parents |-> Put(parents, v, u), ranks |-> ranks]

\* Mutant of union_link: the rank of u grows whenever v is put under it,
\* also when u's rank was the higher.
union_link_always_grows(parents, ranks, u, v) ==
    IF u = v THEN [parents |-> parents, ranks |-> ranks]
    ELSE IF ranks.val[u] < ranks.val[v]
         THEN [parents |-> Put(parents, u, v), ranks |-> ranks]
         ELSE [parents |-> Put(parents, v, u),
               ranks |-> Put(ranks, u, ranks.val[u] + 1)]

\* union(u, v) from `if u == v` on: u and v are the ancestors the two find
\* calls returned.
union_link(parents, ranks, u, v) ==
    IF u = v THEN [parents |-> parents, ranks |-> ranks]
    ELSE IF ranks.val[u] < ranks.val[v]
         THEN [parents |-> Put(parents, u, v), ranks |-> ranks]
         ELSE [parents |-> Put(parents, v, u),
               ranks |-> IF ranks.val[u] = ranks.val[v]
                         THEN Put(ranks, u, ranks.val[u] + 1)
                         ELSE ranks]

union(st, u0, v0) ==
    LET fu == find(st.parents, u0)
        fv == find(fu.parents, v0)
    IN union_link(fv.parents, st.ranks, fu.root, fv.root)

quickunion_start(es) ==
    LET parents == classic_init(EmptyDict, es, 1)
    IN [parents |-> parents,
        ranks |-> [keys |-> parents.keys, val |-> [x \in Keys(parents) |-> 0]]]

RECURSIVE quickunion_edges(_, _, _)
quickunion_edges(st, es, k) ==
    IF k > Len(es) THEN st
    ELSE quickunion_edges(union(st, es[k][1], es[k][2]), es, k + 1)

\* `for vertex in parents: sets_by_ancestor[find(vertex)].append(vertex)`
RECURSIVE group_by_ancestor(_, _, _)
group_by_ancestor(parents, k, sets_by_ancestor) ==
    IF k > Len(parents.keys) THEN sets_by_ancestor
    ELSE LET vertex == parents.keys[k]
             f == find(parents, vertex)
             old == IF Has(sets_by_ancestor, f.root)
                    THEN sets_by_ancestor.val[f.root] ELSE <<>>
         IN group_by_ancestor(f.parents, k + 1,
                              Put(sets_by_ancestor, f.root, Append(old, vertex)))

components_quickunion(es) ==
    LET st == quickunion_edges(quickunion_start(es), es, 1)
        sets_by_ancestor == group_by_ancestor(st.parents, 1, EmptyDict)
    IN {Range(sets_by_ancestor.val[a]) : a \in Keys(sets_by_ancestor)}

\* --------------------------------------------------------- traversals
\* The state of one traversal call: the visited set, the list the collector
\* `action`/`func` appends to, the deepest nesting of Python frames opened
\* below the components_* function, and whether a frame beyond the host's
\* limit was asked for (RecursionError).
NoTraversal == [visited |-> {}, component |-> <<>>, depth |-> 0, raised |-> FALSE]

Deeper(t, dp) == IF dp > t.depth THEN dp ELSE t.depth

\* components_dfs.explore(source, action), called as frame number dp.
RECURSIVE explore(_, _, _, _, _, _)
RECURSIVE explore_loop(_, _, _, _, _, _, _)
\* Mutant of explore: the nested explore runs in the frame of its caller
\* (no frame is opened for it).
explore_flat(adj_list, ord, limit, t, source, dp) ==
    IF dp > limit THEN [t EXCEPT !.raised = TRUE]
    ELSE explore_loop(adj_list, ord, limit,
                      [t EXCEPT !.visited = @ \cup {source},
                                !.component = Append(@, source),
                                !.depth = Deeper(t, dp)],
                      SetIter(adj_list.val[source], ord), 1, dp - 1)

explore(adj_list, ord, limit, t, source, dp) ==
    IF dp > limit THEN [t EXCEPT !.raised = TRUE]
    ELSE explore_loop(adj_list, ord, limit,
                      [t EXCEPT !.visited = @ \cup {source},
                                !.component = Append(@, source),
                                !.depth = Deeper(t, dp)],
                      SetIter(adj_list.val[source], ord), 1, dp)

\* `for dest in adj_list[source]`, from position k of the iteration.
explore_loop(adj_list, ord, limit, t, dests, k, dp) ==
    IF t.raised \/ k > Len(dests) THEN t
    ELSE explore_loop(adj_list, ord, limit,
                      IF dests[k] \notin t.visited
                      THEN explore(adj_list, ord, limit, t, dests[k], dp + 1)
                      ELSE t,
                      dests, k + 1, dp)

\* The running state of a components_* traversal function: what the outer
\* loop over the start vertices has collected so far.
NoComponents == [comps |-> {}, visited |-> {}, depth |-> 0, raised |-> FALSE]

\* components_dfs(), `for source in adj_list`, from position k of the keys.
RECURSIVE dfs_outer(_, _, _, _, _)
dfs_outer(adj_list, ord, limit, c, k) ==
    IF c.raised \/ k > Len(adj_list.keys) THEN c
    ELSE LET source == adj_list.keys[k]
         IN IF source \in c.visited
            THEN dfs_outer(adj_list, ord, limit, c, k + 1)
            ELSE LET t == explore(adj_list, ord, limit,
                                  [visited |-> c.visited, component |-> <<>>,
                                   depth |-> c.depth, raised |-> FALSE],
                                  source, 1)
                 IN dfs_outer(adj_list, ord, limit,
                              [comps |-> IF t.raised THEN c.comps
                                         ELSE c.comps \cup {Range(t.component)},
                               visited |-> t.visited,
                               depth |-> t.depth,
                               raised |-> t.raised],
                              k + 1)

components_dfs(es, vs, ord, limit) ==
    dfs_outer(adjacency(es, vs, FALSE), ord, limit, NoComponents, 1)

\* components_dfs_rec.dfs(src, func), called as frame number dp.
RECURSIVE dfs(_, _, _, _, _, _)
RECURSIVE dfs_loop(_, _, _, _, _, _, _)
dfs(adj, ord, limit, t, src, dp) ==
    IF dp > limit THEN [t EXCEPT !.raised = TRUE]
    ELSE IF src \in t.visited THEN [t EXCEPT !.depth = Deeper(t, dp)]
    ELSE dfs_loop(adj, ord, limit,
                  [t EXCEPT !.visited = @ \cup {src},
                            !.component = Append(@, src),
                            !.depth = Deeper(t, dp)],
                  SetIter(adj.val[src], ord), 1, dp)

\* `for dest in adj[src]`, from position k of the iteration.
dfs_loop(adj, ord, limit, t, dests, k, dp) ==
    IF t.raised \/ k > Len(dests) THEN t
    ELSE dfs_loop(adj, ord, limit,
                  dfs(adj, ord, limit, t, dests[k], dp + 1),
                  dests, k + 1, dp)

\* components_dfs_rec(), `for start in adj`, from position k of the keys.
RECURSIVE dfs_rec_outer(_, _, _, _, _)
dfs_rec_outer(adj, ord, limit, c, k) ==
    IF c.raised \/ k > Len(adj.keys) THEN c
    ELSE LET start == adj.keys[k]
         IN IF start \in c.visited
            THEN dfs_rec_outer(adj, ord, limit, c, k + 1)
            ELSE LET t == dfs(adj, ord, limit,
                              [visited |-> c.visited, component |-> <<>>,
                               depth |-> c.depth, raised |-> FALSE],
                              start, 1)
                 IN dfs_rec_outer(adj, ord, limit,
                                  [comps |-> IF t.raised THEN c.comps
                                             ELSE c.comps \cup {Range(t.component)},
                                   visited |-> t.visited,
                                   depth |-> t.depth,
                                   raised |-> t.raised],
                                  k + 1)

components_dfs_rec(es, ord, limit) ==
    dfs_rec_outer(adjacency_undirected(es), ord, limit, NoComponents, 1)

\* components_dfs_iter.explore(source, action): the source is marked and
\* collected; itst is built and never used.
explore_iter(adj_list, t, source) ==
    [t EXCEPT !.visited = @ \cup {source},
              !.component = Append(@, source),
              !.depth = Deeper(t, 1)]

RECURSIVE dfs_iter_outer(_, _, _)
dfs_iter_outer(adj_list, c, k) ==
    IF k > Len(adj_list.keys) THEN c
    ELSE LET source == adj_list.keys[k]
         IN IF source \in c.visited
            THEN dfs_iter_outer(adj_list, c, k + 1)
            ELSE LET t == explore_iter(adj_list,
                                       [visited |-> c.visited, component |-> <<>>,
                                        depth |-> c.depth, raised |-> FALSE],
                                       source)
                 IN dfs_iter_outer(adj_list,
                                   [comps |-> c.comps \cup {Range(t.component)},
                                    visited |-> t.visited,
                                    depth |-> t.depth,
                                    raised |-> FALSE],
                                   k + 1)

components_dfs_iter(es, vs) ==
    dfs_iter_outer(adjacency(es, vs, FALSE), NoComponents, 1)

\* Mutant of push_unvisited: a visited neighbour ends the loop (break for
\* continue).
RECURSIVE push_unvisited_break(_, _, _, _)
push_unvisited_break(t, pending, dests, k) ==
    IF k > Len(dests) \/ dests[k] \in t.visited THEN [t |-> t, pending |-> pending]
    ELSE push_unvisited_break([t EXCEPT !.visited = @ \cup {dests[k]}],
                              Append(pending, dests[k]), dests, k + 1)

\* Mutant of push_unvisited: an unvisited neighbour is appended and not
\* marked; the vertex just taken off (the last one collected) is marked
\* when its loop is over.
RECURSIVE push_unvisited_mark_late(_, _, _, _)
push_unvisited_mark_late(t, pending, dests, k) ==
    IF k > Len(dests)
    THEN [t |-> [t EXCEPT !.visited = @ \cup {t.component[Len(t.component)]}],
          pending |-> pending]
    ELSE IF dests[k] \in t.visited
         THEN push_unvisited_mark_late(t, pending, dests, k + 1)
         ELSE push_unvisited_mark_late(t, Append(pending, dests[k]), dests, k + 1)

\* `for dest in adj[src]` of stack_search and of bfs, from position k: the
\* unvisited neighbours are marked and appended to the stack or queue.
RECURSIVE push_unvisited(_, _, _, _)
push_unvisited(t, pending, dests, k) ==
    IF k > Len(dests) THEN [t |-> t, pending |-> pending]
    ELSE IF dests[k] \in t.visited
         THEN push_unvisited(t, pending, dests, k + 1)
         ELSE push_unvisited([t EXCEPT !.visited = @ \cup {dests[k]}],
                             Append(pending, dests[k]), dests, k + 1)

\* components_stack.stack_search(), `while stack`: one frame, no call in it
\* but to the collector.
RECURSIVE stack_while(_, _, _, _)
stack_while(adj, ord, t, stack) ==
    IF stack = <<>> THEN t
    ELSE LET src == stack[Len(stack)]
             r == push_unvisited([t EXCEPT !.component = Append(@, src)],
                                 SubSeq(stack, 1, Len(stack) - 1),
                                 SetIter(adj.val[src], ord), 1)
         IN stack_while(adj, ord, r.t, r.pending)

stack_search(adj, ord, t, src) ==
    stack_while(adj, ord,
                [t EXCEPT !.visited = @ \cup {src}, !.depth = Deeper(t, 1)],
                <<src>>)

\* components_bfs.bfs(), `while queue`.
RECURSIVE bfs_while(_, _, _, _)
bfs_while(adj, ord, t, queue) ==
    IF queue = <<>> THEN t
    ELSE LET src == Head(queue)
             r == push_unvisited([t EXCEPT !.component = Append(@, src)],
                                 Tail(queue),
                                 SetIter(adj.val[src], ord), 1)
         IN bfs_while(adj, ord, r.t, r.pending)

bfs(adj, ord, t, src) ==
    bfs_while(adj, ord,
              [t EXCEPT !.visited = @ \cup {src}, !.depth = Deeper(t, 1)],
              <<src>>)

\* components_stack() and components_bfs(), `for start in adj`, from
\* position k of the keys; all_components is kept as the set it is frozen to.
RECURSIVE stack_outer(_, _, _, _)
stack_outer(adj, ord, c, k) ==
    IF k > Len(adj.keys) THEN c
    ELSE LET start == adj.keys[k]
         IN IF start \in c.visited
            THEN stack_outer(adj, ord, c, k + 1)
            ELSE LET t == stack_search(adj, ord,
                                       [visited |-> c.visited, component |-> <<>>,
                                        depth |-> c.depth, raised |-> FALSE],
                                       start)
                 IN stack_outer(adj, ord,
                                [comps |-> c.comps \cup {Range(t.component)},
                                 visited |-> t.visited,
                                 depth |-> t.depth,
                                 raised |-> FALSE],
                                k + 1)

components_stack(es, ord) == stack_outer(adjacency_undirected(es), ord, NoComponents, 1)

RECURSIVE bfs_outer(_, _, _, _)
bfs_outer(adj, ord, c, k) ==
    IF k > Len(adj.keys) THEN c
    ELSE LET start == adj.keys[k]
         IN IF start \in c.visited
            THEN bfs_outer(adj, ord, c, k + 1)
            ELSE LET t == bfs(adj, ord,
                              [visited |-> c.visited, component |-> <<>>,
                               depth |-> c.depth, raised |-> FALSE],
                              start)
                 IN bfs_outer(adj, ord,
                              [comps |-> c.comps \cup {Range(t.component)},
                               visited |-> t.visited,
                               depth |-> t.depth,
                               raised |-> FALSE],
                              k + 1)

components_bfs(es, ord) == bfs_outer(adjacency_undirected(es), ord, NoComponents, 1)

\* devious(), with the 1337 of `labels = range(1337)` as parameter n.
devious(n) == [k \in 1 .. n |-> <<k - 1, k>>]

\* The chains devious() makes, scaled down from 1337 edges.
Chains == {devious(n) : n \in 1 .. MaxChain}

\* The (edges, limit) pairs the recursive functions are called with.
DepthCalls == (EdgeLists \X Limits) \cup (Chains \X DeepLimits)

\* ------------------------------------------------------------- state
VARIABLES
    call,       \* the function called, "none" before any call
    status,     \* "idle", "running", "returned" or "raised" (RecursionError)
    edges,      \* the argument edges
    vertices,   \* the argument vertices (<<>>, the default, where there is none)
    directed,   \* the argument directed of adjacency()
    order,      \* the iteration order of sets during the call
    limit,      \* the host's call-depth limit during the call (0: not drawn)
    ret,        \* the set of components returned
    ret_adj,    \* the mapping adjacency() returned
    ret_dict,   \* the dict of lists components_dict_alt() returned
    depth,      \* the deepest nesting of frames the call opened
    comp_list,  \* components(): the local comp_list
    i,          \* the number of edges the loop `for ... in edges` has processed
    sets,       \* components_quickfind(): the local sets
    representatives,    \* components_quickfind_classic(): the local
    chains,             \* components_quickfind_classic(): the local
    parents,    \* components_quickunion(): the local
    ranks,      \* components_quickunion(): the local
    pc,         \* components_quickunion(): what comes next, "find_u", "find_v"
                \* or "link" of a union(u, v), or "group" (the last loop)
    u_root,     \* union(): u after `u = find(u)` (-1: not bound)
    v_root,     \* union(): v after `v = find(v)` (-1: not bound)
    sets_by_ancestor,   \* components_quickunion(): the local
    g,          \* the number of vertices the loop `for vertex in parents`
                \* has processed
    comp_dict,  \* components_dict_alt2(): the local
    adj,        \* components_stack(), components_bfs(): the local
    visited,    \* components_stack(), components_bfs(): the local
    all_components,     \* components_stack(), components_bfs(): the local
    stack,      \* stack_search(): the local
    queue,      \* bfs(): the local
    starts,     \* the number of keys the loop `for start in adj` has taken
    search_pc,  \* "outer": in the loop `for start in adj`; "while": in the
                \* loop `while stack` / `while queue` of a search
    pushed,     \* the vertices appended to stack or queue during the call,
                \* in the order of the appends
    repoints    \* for each vertex, how often its entry in sets or in
                \* representatives was given another value during the call

\* The locals of the functions but components().
quickfind_locals == <<sets>>
classic_locals == <<representatives, chains>>
quickunion_locals == <<parents, ranks, pc, u_root, v_root, sets_by_ancestor, g>>
search_locals == <<adj, visited, all_components, stack, queue, starts, search_pc,
                   pushed>>
locals == <<quickfind_locals, classic_locals, quickunion_locals, comp_dict,
            search_locals, repoints>>

vars == <<call, status, edges, vertices, directed, order, limit, ret, ret_adj,
          ret_dict, depth, comp_list, i, locals>>

Init ==
    /\ call = "none"
    /\ status = "idle"
    /\ edges = <<>>
    /\ vertices = <<>>
    /\ directed = TRUE
    /\ order = "asc"
    /\ limit = 0
    /\ ret = {}
    /\ ret_adj = EmptyDict
    /\ ret_dict = EmptyRefDict
    /\ depth = 0
    /\ comp_list = <<>>
    /\ i = 0
    /\ sets = EmptyRefDict
    /\ representatives = EmptyDict
    /\ chains = EmptyDict
    /\ parents = EmptyDict
    /\ ranks = EmptyDict
    /\ pc = "none"
    /\ u_root = -1
    /\ v_root = -1
    /\ sets_by_ancestor = EmptyDict
    /\ g = 0
    /\ comp_dict = EmptyRefDict
    /\ adj = EmptyDict
    /\ visited = {}
    /\ all_components = <<>>
    /\ stack = <<>>
    /\ queue = <<>>
    /\ starts = 0
    /\ search_pc = "none"
    /\ pushed = <<>>
    /\ repoints = <<>>

\* A call that runs to its return in one step.
Called(name, es, vs) ==
    /\ call' = name
    /\ status' = "returned"
    /\ edges' = es
    /\ vertices' = vs
    /\ UNCHANGED <<order, limit, depth, comp_list, i, locals>>

\* Such a call of a function that returns a set of components.
Returns(name, es, vs, value) ==
    /\ Called(name, es, vs)
    /\ ret' = value
    /\ UNCHANGED <<directed, ret_adj, ret_dict>>

\* A traversal call: it returns the components or raises RecursionError.
Traverses(name, es, vs, c) ==
    /\ call' = name
    /\ status' = IF c.raised THEN "raised" ELSE "returned"
    /\ edges' = es
    /\ vertices' = vs
    /\ ret' = IF c.raised THEN {} ELSE c.comps
    /\ depth' = c.depth
    /\ UNCHANGED <<directed, ret_adj, ret_dict, comp_list, i, locals>>

Call_adjacency ==
    /\ status = "idle"
    /\ \E es \in EdgeLists : \E vs \in VertexLists(es) : \E dir \in BOOLEAN :
        /\ Called("adjacency", es, vs)
        /\ directed' = dir
        /\ ret_adj' = adjacency(es, vs, dir)
        /\ UNCHANGED <<ret, ret_dict>>

Call_adjacency_undirected ==
    /\ status = "idle"
    /\ \E es \in EdgeLists :
        /\ Called("adjacency_undirected", es, <<>>)
        /\ ret_adj' = adjacency_undirected(es)
        /\ UNCHANGED <<directed, ret, ret_dict>>

\* components(): entry, one iteration of `for a, b in edges`, and the return.
Call_components ==
    /\ status = "idle"
    /\ \E es \in EdgeLists :
        /\ call' = "components"
        /\ status' = "running"
        /\ edges' = es
        /\ comp_list' = <<>>
        /\ i' = 0
        /\ UNCHANGED <<vertices, directed, order, limit, ret, ret_adj, ret_dict, depth,
                       locals>>

components_step ==
    /\ call = "components"
    /\ status = "running"
    /\ i < Len(edges)
    /\ comp_list' = components_edge(comp_list, edges[i + 1][1], edges[i + 1][2])
    /\ i' = i + 1
    /\ UNCHANGED <<call, status, edges, vertices, directed, order, limit, ret,
                   ret_adj, ret_dict, depth, locals>>

components_return ==
    /\ call = "components"
    /\ status = "running"
    /\ i = Len(edges)
    /\ ret' = Range(comp_list)
    /\ status' = "returned"
    /\ UNCHANGED <<call, edges, vertices, directed, order, limit, ret_adj, ret_dict,
                   depth, comp_list, i, locals>>

Call_components_d ==
    /\ status = "idle"
    /\ \E es \in EdgeLists : \E vs \in VertexLists(es) :
        /\ Returns("components_d", es, vs, components_d(es, vs))

Call_components_dict_alt ==
    /\ status = "idle"
    /\ \E es \in EdgeLists : \E vs \in VertexLists(es) :
        /\ Called("components_dict_alt", es, vs)
        /\ ret_dict' = components_dict_alt(es, vs)
        /\ UNCHANGED <<directed, ret, ret_adj>>

Call_components_quickfind ==
    /\ status = "idle"
    /\ \E es \in EdgeLists :
        /\ Returns("components_quickfind", es, <<>>, components_quickfind(es))

Call_components_quickfind_classic ==
    /\ status = "idle"
    /\ \E es \in EdgeLists :
        /\ Returns("components_quickfind_classic", es, <<>>,
                   components_quickfind_classic(es))

Call_components_quickunion ==
    /\ status = "idle"
    /\ \E es \in EdgeLists :
        /\ Returns("components_quickunion", es, <<>>, components_quickunion(es))

Call_components_dfs ==
    /\ status = "idle"
    /\ \E c \in DepthCalls : \E vs \in VertexLists(c[1]) : \E ord \in SetOrders :
        /\ Traverses("components_dfs", c[1], vs, components_dfs(c[1], vs, ord, c[2]))
        /\ order' = ord
        /\ limit' = c[2]

Call_components_dfs_rec ==
    /\ status = "idle"
    /\ \E c \in DepthCalls : \E ord \in SetOrders :
        /\ Traverses("components_dfs_rec", c[1], <<>>, components_dfs_rec(c[1], ord, c[2]))
        /\ order' = ord
        /\ limit' = c[2]

Call_components_dfs_iter ==
    /\ status = "idle"
    /\ \E es \in EdgeLists \cup Chains : \E vs \in VertexLists(es) :
        /\ Traverses("components_dfs_iter", es, vs, components_dfs_iter(es, vs))
        /\ UNCHANGED <<order, limit>>

Call_components_stack ==
    /\ status = "idle"
    /\ \E es \in EdgeLists \cup Chains : \E ord \in SetOrders :
        /\ Traverses("components_stack", es, <<>>, components_stack(es, ord))
        /\ order' = ord
        /\ UNCHANGED limit

Call_components_bfs ==
    /\ status = "idle"
    /\ \E es \in EdgeLists \cup Chains : \E ord \in SetOrders :
        /\ Traverses("components_bfs", es, <<>>, components_bfs(es, ord))
        /\ order' = ord
        /\ UNCHANGED limit

\* The entries of a dict that an assignment gave another value: old and new
\* are the mappings (key to value) before and after.
Repointed(old, new) == {x \in DOMAIN old : new[x] # old[x]}

\* repoints after the entries old have become new.
Counted(old, new) ==
    [x \in DOMAIN repoints |->
        IF x \in Repointed(old, new) THEN repoints[x] + 1 ELSE repoints[x]]

\* components_quickfind(), step by step: the singleton sets are made, then
\* one iteration of `for u, v in edges` at a time, then the return.
quickfind_begin ==
    /\ status = "idle"
    /\ \E es \in EdgeLists :
        /\ call' = "components_quickfind"
        /\ status' = "running"
        /\ edges' = es
        /\ sets' = singletons_edges(EmptyRefDict, es, 1)
        /\ repoints' = [x \in Endpoints(es) |-> 0]
        /\ i' = 0
        /\ UNCHANGED <<vertices, directed, order, limit, ret, ret_adj, ret_dict, depth,
                       comp_list, classic_locals, quickunion_locals, comp_dict, search_locals>>

quickfind_step ==
    /\ call = "components_quickfind"
    /\ status = "running"
    /\ i < Len(edges)
    /\ LET joined == quickfind_edge(sets, edges[i + 1][1], edges[i + 1][2])
       IN /\ sets' = joined
          /\ repoints' = Counted(sets.val, joined.val)
    /\ i' = i + 1
    /\ UNCHANGED <<call, status, edges, vertices, directed, order, limit, ret,
                   ret_adj, ret_dict, depth, comp_list, classic_locals,
                   quickunion_locals, comp_dict, search_locals>>

quickfind_return ==
    /\ call = "components_quickfind"
    /\ status = "running"
    /\ i = Len(edges)
    /\ ret' = setofsets(sets)
    /\ status' = "returned"
    /\ UNCHANGED <<call, edges, vertices, directed, order, limit, ret_adj, ret_dict,
                   depth, comp_list, i, locals>>

\* components_quickfind_classic(), step by step: representatives and chains
\* are made, then one union(u, v) of `for u, v in edges` at a time, then the
\* return.
classic_begin ==
    /\ status = "idle"
    /\ \E es \in EdgeLists :
        /\ call' = "components_quickfind_classic"
        /\ status' = "running"
        /\ edges' = es
        /\ representatives' = classic_start(es).representatives
        /\ chains' = classic_start(es).chains
        /\ repoints' = [x \in Endpoints(es) |-> 0]
        /\ i' = 0
        /\ UNCHANGED <<vertices, directed, order, limit, ret, ret_adj, ret_dict, depth,
                       comp_list, quickfind_locals, quickunion_locals, comp_dict, search_locals>>

classic_step ==
    /\ call = "components_quickfind_classic"
    /\ status = "running"
    /\ i < Len(edges)
    /\ LET united == classic_union([representatives |-> representatives,
                                    chains |-> chains],
                                   edges[i + 1][1], edges[i + 1][2])
       IN /\ representatives' = united.representatives
          /\ chains' = united.chains
          /\ repoints' = Counted(representatives.val, united.representatives.val)
    /\ i' = i + 1
    /\ UNCHANGED <<call, status, edges, vertices, directed, order, limit, ret,
                   ret_adj, ret_dict, depth, comp_list, quickfind_locals,
                   quickunion_locals, comp_dict, search_locals>>

classic_return ==
    /\ call = "components_quickfind_classic"
    /\ status = "running"
    /\ i = Len(edges)
    /\ LET canonical_vertices == {representatives.val[x] : x \in Keys(representatives)}
       IN ret' = {Range(chains.val[vertex]) : vertex \in canonical_vertices}
    /\ status' = "returned"
    /\ UNCHANGED <<call, edges, vertices, directed, order, limit, ret_adj, ret_dict,
                   depth, comp_list, i, locals>>

\* What components_quickunion() leaves alone between its entry and its return.
quickunion_frame ==
    UNCHANGED <<call, status, edges, vertices, directed, order, limit, ret, ret_adj,
                ret_dict, depth, comp_list, quickfind_locals, classic_locals,
                comp_dict, search_locals, repoints>>

\* components_quickunion(), step by step: parents and ranks are made; each
\* union(u, v) of `for u, v in edges` is its two find calls and the linking
\* of the ancestors found; then each find(vertex) of the last loop; then the
\* return.
quickunion_begin ==
    /\ status = "idle"
    /\ \E es \in EdgeLists :
        /\ call' = "components_quickunion"
        /\ status' = "running"
        /\ edges' = es
        /\ parents' = quickunion_start(es).parents
        /\ ranks' = quickunion_start(es).ranks
        /\ pc' = IF es = <<>> THEN "group" ELSE "find_u"
        /\ i' = 0
        /\ UNCHANGED <<vertices, directed, order, limit, ret, ret_adj, ret_dict, depth,
                       comp_list, quickfind_locals, classic_locals, comp_dict,
                       search_locals, repoints, u_root, v_root, sets_by_ancestor, g>>

quickunion_find_u ==
    /\ call = "components_quickunion"
    /\ status = "running"
    /\ pc = "find_u"
    /\ LET found == find(parents, edges[i + 1][1])
       IN /\ parents' = found.parents
          /\ u_root' = found.root
    /\ pc' = "find_v"
    /\ quickunion_frame
    /\ UNCHANGED <<i, ranks, v_root, sets_by_ancestor, g>>

quickunion_find_v ==
    /\ call = "components_quickunion"
    /\ status = "running"
    /\ pc = "find_v"
    /\ LET found == find(parents, edges[i + 1][2])
       IN /\ parents' = found.parents
          /\ v_root' = found.root
    /\ pc' = "link"
    /\ quickunion_frame
    /\ UNCHANGED <<i, ranks, u_root, sets_by_ancestor, g>>

quickunion_link ==
    /\ call = "components_quickunion"
    /\ status = "running"
    /\ pc = "link"
    /\ LET linked == union_link(parents, ranks, u_root, v_root)
       IN /\ parents' = linked.parents
          /\ ranks' = linked.ranks
    /\ i' = i + 1
    /\ pc' = IF i + 1 < Len(edges) THEN "find_u" ELSE "group"
    /\ quickunion_frame
    /\ UNCHANGED <<u_root, v_root, sets_by_ancestor, g>>

quickunion_group ==
    /\ call = "components_quickunion"
    /\ status = "running"
    /\ pc = "group"
    /\ g < Len(parents.keys)
    /\ LET vertex == parents.keys[g + 1]
           found == find(parents, vertex)
           old == IF Has(sets_by_ancestor, found.root)
                  THEN sets_by_ancestor.val[found.root] ELSE <<>>
       IN /\ parents' = found.parents
          /\ sets_by_ancestor' = Put(sets_by_ancestor, found.root, Append(old, vertex))
    /\ g' = g + 1
    /\ quickunion_frame
    /\ UNCHANGED <<i, pc, ranks, u_root, v_root>>

quickunion_return ==
    /\ call = "components_quickunion"
    /\ status = "running"
    /\ pc = "group"
    /\ g = Len(parents.keys)
    /\ ret' = {Range(sets_by_ancestor.val[a]) : a \in Keys(sets_by_ancestor)}
    /\ status' = "returned"
    /\ UNCHANGED <<call, edges, vertices, directed, order, limit, ret_adj, ret_dict,
                   depth, comp_list, i, locals>>

\* components_dict_alt2(), step by step: the singleton lists are made, then
\* one iteration of the second loop `for source, dest in edges` at a time,
\* then the return.
dict_alt2_begin ==
    /\ status = "idle"
    /\ \E es \in EdgeLists : \E vs \in VertexLists(es) :
        /\ call' = "components_dict_alt2"
        /\ status' = "running"
        /\ edges' = es
        /\ vertices' = vs
        /\ comp_dict' = singletons_vertices(singletons_edges(EmptyRefDict, es, 1), vs, 1)
        /\ i' = 0
        /\ UNCHANGED <<directed, order, limit, ret, ret_adj, ret_dict, depth, comp_list,
                       quickfind_locals, classic_locals, quickunion_locals,
                       search_locals, repoints>>

dict_alt2_step ==
    /\ call = "components_dict_alt2"
    /\ status = "running"
    /\ i < Len(edges)
    /\ comp_dict' = components_dict_alt2_edge(comp_dict, edges[i + 1][1], edges[i + 1][2])
    /\ i' = i + 1
    /\ UNCHANGED <<call, status, edges, vertices, directed, order, limit, ret, ret_adj,
                   ret_dict, depth, comp_list, quickfind_locals, classic_locals,
                   quickunion_locals, search_locals, repoints>>

dict_alt2_return ==
    /\ call = "components_dict_alt2"
    /\ status = "running"
    /\ i = Len(edges)
    /\ ret_dict' = comp_dict
    /\ status' = "returned"
    /\ UNCHANGED <<call, edges, vertices, directed, order, limit, ret, ret_adj,
                   depth, comp_list, i, locals>>

\* components_stack() and components_bfs(), step by step.  The two have the
\* same text but for the stack (taken from the end) and the queue (taken
\* from the front); name says which is running.
IsStack(name) == name = "components_stack"

\* What a search leaves alone between its entry and its return.
search_frame ==
    UNCHANGED <<call, status, edges, vertices, directed, order, limit, ret, ret_adj,
                ret_dict, comp_list, i, quickfind_locals, classic_locals,
                quickunion_locals, comp_dict, repoints, adj>>

\* adj = adjacency_undirected(edges); visited = set(); all_components = []
search_begin(name) ==
    /\ status = "idle"
    /\ \E es \in EdgeLists \cup Chains : \E ord \in SetOrders :
        /\ call' = name
        /\ status' = "running"
        /\ edges' = es
        /\ order' = ord
        /\ adj' = adjacency_undirected(es)
        /\ visited' = {}
        /\ all_components' = <<>>
        /\ starts' = 0
        /\ search_pc' = "outer"
        /\ UNCHANGED <<vertices, directed, limit, ret, ret_adj, ret_dict, depth,
                       comp_list, i, quickfind_locals, classic_locals,
                       quickunion_locals, comp_dict, repoints, stack, queue, pushed>>

\* One iteration of `for start in adj`: a visited start is passed over; for
\* another one a new component list is appended and the search is entered,
\* which marks the start and puts it on the stack or queue.
search_start(name) ==
    /\ call = name
    /\ status = "running"
    /\ search_pc = "outer"
    /\ starts < Len(adj.keys)
    /\ LET start == adj.keys[starts + 1]
       IN IF start \in visited
          THEN UNCHANGED <<visited, all_components, stack, queue, search_pc, pushed,
                           depth>>
          ELSE /\ all_components' = Append(all_components, <<>>)
               /\ visited' = visited \cup {start}
               /\ stack' = IF IsStack(name) THEN <<start>> ELSE stack
               /\ queue' = IF IsStack(name) THEN queue ELSE <<start>>
               /\ pushed' = Append(pushed, start)
               /\ search_pc' = "while"
               /\ depth' = IF depth < 1 THEN 1 ELSE depth
    /\ starts' = starts + 1
    /\ search_frame

\* One iteration of `while stack` / `while queue`: src is taken off and
\* handed to the collector (all_components[-1].append), then its unvisited
\* neighbours are marked and appended.
search_pop(name) ==
    /\ call = name
    /\ status = "running"
    /\ search_pc = "while"
    /\ (IF IsStack(name) THEN stack ELSE queue) # <<>>
    /\ LET pending == IF IsStack(name) THEN stack ELSE queue
           src == IF IsStack(name) THEN pending[Len(pending)] ELSE Head(pending)
           rest == IF IsStack(name) THEN SubSeq(pending, 1, Len(pending) - 1)
                   ELSE Tail(pending)
           component == Append(all_components[Len(all_components)], src)
           r == push_unvisited([NoTraversal EXCEPT !.visited = visited,
                                                   !.component = component],
                               rest, SetIter(adj.val[src], order), 1)
       IN /\ all_components' = [all_components EXCEPT ![Len(all_components)] = component]
          /\ visited' = r.t.visited
          /\ stack' = IF IsStack(name) THEN r.pending ELSE stack
          /\ queue' = IF IsStack(name) THEN queue ELSE r.pending
          /\ pushed' = pushed \o SubSeq(r.pending, Len(rest) + 1, Len(r.pending))
    /\ UNCHANGED <<starts, search_pc, depth>>
    /\ search_frame

\* `while stack` / `while queue` finds it empty: the search returns to the
\* loop over the starts.
search_end(name) ==
    /\ call = name
    /\ status = "running"
    /\ search_pc = "while"
    /\ (IF IsStack(name) THEN stack ELSE queue) = <<>>
    /\ search_pc' = "outer"
    /\ UNCHANGED <<visited, all_components, stack, queue, starts, pushed, depth>>
    /\ search_frame

\* return {frozenset(component) for component in all_components}
search_return(name) ==
    /\ call = name
    /\ status = "running"
    /\ search_pc = "outer"
    /\ starts = Len(adj.keys)
    /\ ret' = {Range(all_components[n]) : n \in DOMAIN all_components}
    /\ status' = "returned"
    /\ UNCHANGED <<call, edges, vertices, directed, order, limit, ret_adj, ret_dict,
                   depth, comp_list, i, locals>>

components_stack_begin ==
    /\ status = "idle"
    /\ search_begin("components_stack")
components_stack_start ==
    /\ call = "components_stack"
    /\ search_start("components_stack")
stack_search_pop ==
    /\ call = "components_stack"
    /\ search_pop("components_stack")
stack_search_end ==
    /\ call = "components_stack"
    /\ search_end("components_stack")
components_stack_return ==
    /\ call = "components_stack"
    /\ search_return("components_stack")

components_bfs_begin ==
    /\ status = "idle"
    /\ search_begin("components_bfs")
components_bfs_start ==
    /\ call = "components_bfs"
    /\ search_start("components_bfs")
bfs_pop ==
    /\ call = "components_bfs"
    /\ search_pop("components_bfs")
bfs_end ==
    /\ call = "components_bfs"
    /\ search_end("components_bfs")
components_bfs_return ==
    /\ call = "components_bfs"
    /\ search_return("components_bfs")

\* The functions that build the components edge by edge.
NextUnionFind ==
    \/ Call_components
    \/ components_step
    \/ components_return
    \/ Call_components_d
    \/ Call_components_dict_alt
    \/ Call_components_quickfind
    \/ Call_components_quickfind_classic
    \/ Call_components_quickunion

\* adjacency() and the functions that traverse the adjacency mapping.
NextTraversal ==
    \/ Call_adjacency
    \/ Call_adjacency_undirected
    \/ Call_components_dfs
    \/ Call_components_dfs_rec
    \/ Call_components_dfs_iter
    \/ Call_components_stack
    \/ Call_components_bfs

Next == NextUnionFind \/ NextTraversal

Spec == Init /\ [][Next]_vars

SpecUnionFind == Init /\ [][NextUnionFind]_vars

SpecTraversal == Init /\ [][NextTraversal]_vars

\* components_quickfind() and components_quickfind_classic(), step by step.
NextQuickFind ==
    \/ quickfind_begin
    \/ quickfind_step
    \/ quickfind_return
    \/ classic_begin
    \/ classic_step
    \/ classic_return

SpecQuickFind == Init /\ [][NextQuickFind]_vars

\* components_quickunion(), step by step.
NextQuickUnion ==
    \/ quickunion_begin
    \/ quickunion_find_u
    \/ quickunion_find_v
    \/ quickunion_link
    \/ quickunion_group
    \/ quickunion_return

SpecQuickUnion == Init /\ [][NextQuickUnion]_vars

\* components_dict_alt2(), step by step.
NextDictAlt2 ==
    \/ dict_alt2_begin
    \/ dict_alt2_step
    \/ dict_alt2_return

SpecDictAlt2 == Init /\ [][NextDictAlt2]_vars

\* components_stack() and components_bfs(), step by step.
NextSearch ==
    \/ components_stack_begin
    \/ components_stack_start
    \/ stack_search_pop
    \/ stack_search_end
    \/ components_stack_return
    \/ components_bfs_begin
    \/ components_bfs_start
    \/ bfs_pop
    \/ bfs_end
    \/ components_bfs_return

\* A call that has been entered goes on: the interpreter runs the one
\* thread of the call until it returns.
SpecSearch == Init /\ [][NextSearch]_vars /\ WF_vars(NextSearch)

\* ---------------------------------------------------------- properties
Returned(name) == call = name /\ status = "returned"

\* A limit no traversal of the edge list reaches: a traversal nests at most
\* one frame per vertex, and one more.
NoLimit(es) == 2 * Len(es) + 2

\* The six functions of the agreement property.
SixVariants ==
    {"components_quickfind", "components_quickfind_classic",
     "components_quickunion", "components_dfs_rec", "components_stack",
     "components_bfs"}

\* C1, as stated: for every edge list each of the six functions returns
\* exactly the set of classes of undirected reachability over the edge
\* endpoints.
C1_SixReturnReachClasses ==
    call \in SixVariants =>
        status = "returned" /\ ret = ReachClasses(edges, <<>>)

\* C1, amended: the five functions that do not recurse into the graph return
\* exactly the reachability classes for every edge list; components_dfs_rec
\* returns them whenever the nesting of its dfs calls stays within the
\* host's call-depth limit, and raises RecursionError otherwise.
C1_SixAgreeWhenDepthPermits ==
    call \in SixVariants =>
        LET permitted ==
                call = "components_dfs_rec" =>
                    components_dfs_rec(edges, order, NoLimit(edges)).depth <= limit
        IN /\ permitted => status = "returned" /\ ret = ReachClasses(edges, <<>>)
           /\ ~permitted => status = "raised"

\* components_dfs_rec has returned both components of a list with a
\* reversed duplicate and a self-loop.
C1_Witness ==
    /\ Returned("components_dfs_rec")
    /\ edges = <<<<0, 1>>, <<1, 0>>, <<2, 2>>>>
    /\ ret = {{0, 1}, {2}}

PairwiseDisjoint(F) == \A A \in F : \A B \in F : A # B => A \cap B = {}

\* C2: the components components_d returns are pairwise disjoint and their
\* union is the set of the vertices mentioned in the edges plus the supplied
\* vertices, so every such vertex is in exactly one component.
C2_ComponentsDPartition ==
    Returned("components_d") =>
        /\ PairwiseDisjoint(ret)
        /\ UNION ret = Endpoints(edges) \cup Range(vertices)
        /\ \A x \in Endpoints(edges) : Cardinality({A \in ret : x \in A}) = 1

\* C3: in components(), after each edge processed comp_list holds pairwise
\* disjoint sets that are exactly the connected classes of the edges
\* processed so far, and the set returned is that of the whole edge list.
C3_CompListIsPartitionOfPrefix ==
    call = "components" =>
        /\ \A j \in DOMAIN comp_list : \A k \in DOMAIN comp_list :
               j # k => comp_list[j] \cap comp_list[k] = {}
        /\ Range(comp_list) = ReachClasses(SubSeq(edges, 1, i), <<>>)
        /\ status = "returned" => i = Len(edges) /\ ret = ReachClasses(edges, <<>>)

\* The third edge has just joined two existing components of comp_list.
C3_Witness ==
    /\ call = "components"
    /\ status = "running"
    /\ edges = <<<<0, 1>>, <<2, 3>>, <<1, 2>>>>
    /\ i = 3
    /\ comp_list = <<{0, 1, 2, 3}>>

\* The edge lists that are a permutation of es.
PermutationsOf(es) ==
    {[k \in DOMAIN es |-> es[p[k]]] : p \in Permutations(DOMAIN es)}

\* The four functions of the order-independence property, applied.
Apply(name, es) ==
    CASE name = "components" -> components(es)
      [] name = "components_quickfind" -> components_quickfind(es)
      [] name = "components_quickfind_classic" -> components_quickfind_classic(es)
      [] name = "components_quickunion" -> components_quickunion(es)

\* C4: for components, components_quickfind, components_quickfind_classic
\* and components_quickunion, the result on every permutation of the edge
\* list equals the result on the list.
C4_PermutationInvariant ==
    /\ status = "returned"
    /\ call \in {"components", "components_quickfind",
                 "components_quickfind_classic", "components_quickunion"}
    => \A es \in PermutationsOf(edges) : Apply(call, es) = ret

\* components_quickunion has returned the one component of three edges that
\* join two pairs, so that some permutation unites the pairs last.
C4_Witness ==
    /\ Returned("components_quickunion")
    /\ edges = <<<<0, 1>>, <<1, 2>>, <<2, 3>>>>
    /\ ret = {{0, 1, 2, 3}}

\* C5: for components_d, appending a duplicate or a reverse-direction copy
\* of an edge already in the list does not change the set returned.
C5_DuplicateEdgeNoChange ==
    Returned("components_d") =>
        \A k \in DOMAIN edges :
            /\ components_d(Append(edges, edges[k]), vertices) = ret
            /\ components_d(Append(edges, <<edges[k][2], edges[k][1]>>), vertices) = ret

\* What C6 says of a set of components F for the arguments of the call.
IsReachPartition(F) ==
    /\ F = ReachClasses(edges, vertices)
    /\ \A v \in Range(vertices) :
           /\ v \notin Endpoints(edges) => {v} \in F
           /\ Cardinality({A \in F : v \in A}) = 1

\* C6, as stated: for every edge list and vertex list, components_dfs and
\* components_dict_alt (grouped by list identity) both yield the
\* reachability classes over the endpoints and the supplied vertices, a
\* supplied vertex in no edge being its own singleton.
C6_DfsAndDictAltReachClasses ==
    /\ call = "components_dfs" => status = "returned" /\ IsReachPartition(ret)
    /\ Returned("components_dict_alt") => IsReachPartition(setofsets(ret_dict))

\* C6, amended: components_dict_alt yields those classes for every edge list
\* and vertex list; components_dfs returns the same set whenever the nesting
\* of its explore calls stays within the host's call-depth limit, and raises
\* RecursionError otherwise.
C6_DfsAndDictAltWhenDepthPermits ==
    /\ call = "components_dfs" =>
           IF components_dfs(edges, vertices, order, NoLimit(edges)).depth <= limit
           THEN /\ status = "returned"
                /\ IsReachPartition(ret)
                /\ ret = setofsets(components_dict_alt(edges, vertices))
           ELSE status = "raised"
    /\ Returned("components_dict_alt") => IsReachPartition(setofsets(ret_dict))

\* components_dfs has returned an edge's component and the singleton of a
\* supplied vertex that is in no edge, the other supplied vertex being an
\* endpoint.
C6_Witness ==
    /\ Returned("components_dfs")
    /\ edges = <<<<0, 1>>>>
    /\ vertices = <<2, 1>>
    /\ ret = {{0, 1}, {2}}

IsChain(es) == Len(es) >= 1 /\ es = devious(Len(es))

\* C7: on a chain of n sequential edges components_dfs and
\* components_dfs_rec nest their calls at least n+1 deep, so under a
\* call-depth limit below n+1 the call raises RecursionError and returns
\* nothing; when it returns, it returns the right partition.
C7_ChainExhaustsRecursion ==
    call \in {"components_dfs", "components_dfs_rec"} /\ IsChain(edges) =>
        /\ status \in {"returned", "raised"}
        /\ limit < Len(edges) + 1 => status = "raised" /\ ret = {}
        /\ status = "raised" => ret = {} /\ depth = limit
        /\ status = "returned" =>
               /\ depth >= Len(edges) + 1
               /\ ret = ReachClasses(edges, vertices)

\* components_dfs_rec has raised on the longest chain under a limit of as
\* many frames as the chain has edges.
C7_Witness ==
    /\ call = "components_dfs_rec"
    /\ edges = devious(MaxChain)
    /\ limit = MaxChain
    /\ status = "raised"

\* C8: on a chain of n sequential edges components_stack and components_bfs
\* open no nested frame and return the single component of all n+1
\* vertices.
C8_IterativeHandlesChain ==
    call \in {"components_stack", "components_bfs"} /\ IsChain(edges) =>
        /\ status = "returned"
        /\ depth = 1
        /\ ret = {0 .. Len(edges)}

\* components_bfs has returned the one component of the longest chain.
C8_Witness ==
    /\ Returned("components_bfs")
    /\ edges = devious(MaxChain)
    /\ ret = {0 .. MaxChain}

\* C9: components_dfs_iter returns the same set of components as
\* components_dfs (run where the call depth permits), for every edge list
\* and vertex list.
C9_DfsIterLikeDfs ==
    Returned("components_dfs_iter") =>
        ret = components_dfs(edges, vertices, "asc", NoLimit(edges)).comps

\* C10: adjacency() returns a mapping whose keys are the edge sources
\* (directed) or all endpoints (undirected) plus the supplied vertices, each
\* once, and in which the neighbours of u are exactly the v with an edge
\* (u,v), or with an edge (u,v) or (v,u) when undirected; so a supplied
\* vertex with no edges maps to the empty set and one with neighbours keeps
\* them.
C10_AdjacencyExact ==
    Returned("adjacency") =>
        LET es == Range(edges)
            sources == {e[1] : e \in es}
        IN /\ Keys(ret_adj) = (IF directed THEN sources ELSE Endpoints(edges))
                              \cup Range(vertices)
           /\ DOMAIN ret_adj.val = Keys(ret_adj)
           /\ \A j \in DOMAIN ret_adj.keys : \A k \in DOMAIN ret_adj.keys :
                  j # k => ret_adj.keys[j] # ret_adj.keys[k]
           /\ \A u \in Keys(ret_adj) :
                  ret_adj.val[u] = {v \in Endpoints(edges) :
                                   \/ <<u, v>> \in es
                                   \/ ~directed /\ <<v, u>> \in es}

\* adjacency() has returned, directed, for an edge and two supplied
\* vertices, one with a neighbour and one with none.
C10_Witness ==
    /\ Returned("adjacency")
    /\ directed
    /\ edges = <<<<0, 1>>>>
    /\ vertices = <<0, 2>>
    /\ ret_adj.val[0] = {1}
    /\ ret_adj.val[2] = {}
    /\ ~Has(ret_adj, 1)

\* A function run step by step returns what the same function returns when
\* it is run as one step.
StepsAgreeWithCalls ==
    status = "returned" =>
        /\ call = "components_quickfind" => ret = components_quickfind(edges)
        /\ call = "components_quickfind_classic" =>
               ret = components_quickfind_classic(edges)
        /\ call = "components_quickunion" => ret = components_quickunion(edges)
        /\ call = "components_dict_alt2" =>
               ret_dict = components_dict_alt2(edges, vertices)
        /\ call = "components_stack" => ret = components_stack(edges, order).comps
        /\ call = "components_bfs" => ret = components_bfs(edges, order).comps
        /\ call \in {"components_quickfind", "components_quickfind_classic",
                      "components_quickunion", "components_stack", "components_bfs"}
               => ret = ReachClasses(edges, <<>>)

\* Two dicts are equal as Python compares them: the same keys, and the same
\* value for each key (the order of insertion does not count).
SameMapping(a, b) ==
    /\ Keys(a) = Keys(b)
    /\ \A k \in Keys(a) : a.val[k] = b.val[k]

\* C11: for every edge list, adjacency(edges, directed=False) and
\* adjacency_undirected(edges) return the same mapping: the same keys and
\* the same neighbour set for each key.
C11_UndirectedSameMapping ==
    /\ Returned("adjacency_undirected") =>
           SameMapping(ret_adj, adjacency(edges, <<>>, FALSE))
    /\ Returned("adjacency") /\ ~directed /\ vertices = <<>> =>
           SameMapping(ret_adj, adjacency_undirected(edges))

\* adjacency_undirected() has returned for a list with a self-loop and a
\* vertex that is the source of one edge and the destination of another.
C11_Witness ==
    /\ Returned("adjacency_undirected")
    /\ edges = <<<<0, 1>>, <<1, 1>>, <<2, 0>>>>
    /\ ret_adj.val[0] = {1, 2}
    /\ ret_adj.val[1] = {0, 1}
    /\ ret_adj.val[2] = {0}

RECURSIVE Pow2(_)
Pow2(n) == IF n = 0 THEN 1 ELSE 2 * Pow2(n - 1)

\* floor(log2 n) for n >= 1.
RECURSIVE FloorLog2(_)
FloorLog2(n) == IF n <= 1 THEN 0 ELSE 1 + FloorLog2(n \div 2)

\* The two quick-find functions.
QuickFinds == {"components_quickfind", "components_quickfind_classic"}

\* For function name and its locals d (sets) or r, c (representatives,
\* chains): what each vertex points at, and the members of the component
\* each vertex belongs to.
PointersOf(name, d, r) ==
    IF name = "components_quickfind" THEN d.val ELSE r.val

MembersOf(name, d, r, c) ==
    IF name = "components_quickfind"
    THEN [x \in Keys(d) |-> Range(ListOf(d, x))]
    ELSE [x \in Keys(r) |-> Range(c.val[r.val[x]])]

\* What C12 says of one join: the vertices repointed (moved) are the whole of
\* one component, they join another component that had at least as many
\* vertices, and the component of each of them has at least doubled.
JoinsSmallerIntoLarger(before, after, moved) ==
    moved # {} =>
        \E x \in moved :
            LET from == before[x]
                to == after[x] \ from
            IN /\ moved = from
               /\ to # {}
               /\ \A y \in to : before[y] = to /\ after[y] = after[x]
               /\ Cardinality(from) <= Cardinality(to)
               /\ \A y \in moved :
                      Cardinality(after[y]) >= 2 * Cardinality(before[y])

\* What C12 says of the counts: a vertex repointed k times is in a
\* component of at least 2^k vertices, and k is at most floor(log2 n) for
\* the n distinct endpoints of the edge list.
RepointsBounded ==
    call \in QuickFinds =>
        LET members == MembersOf(call, sets, representatives, chains)
        IN \A x \in DOMAIN repoints :
               /\ Pow2(repoints[x]) <= Cardinality(members[x])
               /\ repoints[x] <= FloorLog2(Cardinality(Endpoints(edges)))

\* C12: in components_quickfind and components_quickfind_classic every join
\* moves the members of the component with fewer (or equally many) vertices
\* into the other one, so each time a vertex is repointed its component at
\* least doubles in size, and over a whole run on n distinct endpoints no
\* vertex is repointed more than floor(log2 n) times.
C12_MeldBySize ==
    [][call' \in QuickFinds =>
          /\ JoinsSmallerIntoLarger(
                 MembersOf(call', sets, representatives, chains),
                 MembersOf(call', sets', representatives', chains'),
                 Repointed(PointersOf(call', sets, representatives),
                           PointersOf(call', sets', representatives')))
          /\ RepointsBounded']_vars

\* components_quickfind() has joined two sets of two vertices each: the
\* vertex 3 has been repointed twice, which is floor(log2 4).
C12_Witness ==
    /\ call = "components_quickfind"
    /\ edges = <<<<0, 1>>, <<2, 3>>, <<0, 2>>>>
    /\ i = 3
    /\ repoints = [x \in 0 .. 3 |-> IF x = 0 THEN 0 ELSE IF x = 3 THEN 2 ELSE 1]

\* C15: in components_quickfind_classic, after any number of unions,
\* representatives[representatives[v]] = representatives[v] for every
\* vertex v, and for every vertex r that is its own representative chains[r]
\* lists exactly the vertices w with representatives[w] = r, each once;
\* hence the result has one component per distinct representative.
C15_ClassicInvariants ==
    call = "components_quickfind_classic" =>
        LET V == Keys(representatives)
            canonical == {representatives.val[x] : x \in V}
            class(r) == {w \in V : representatives.val[w] = r}
        IN /\ V = Endpoints(edges)
           /\ \A x \in V :
                  representatives.val[representatives.val[x]] = representatives.val[x]
           /\ \A r \in V :
                  representatives.val[r] = r =>
                      /\ Range(chains.val[r]) = class(r)
                      /\ Len(chains.val[r]) = Cardinality(class(r))
           /\ status = "returned" =>
                  /\ ret = {class(r) : r \in canonical}
                  /\ Cardinality(ret) = Cardinality(canonical)

\* components_quickfind_classic() has united two chains of two vertices
\* each under the representative 0.
C15_Witness ==
    /\ call = "components_quickfind_classic"
    /\ status = "running"
    /\ edges = <<<<0, 1>>, <<2, 3>>, <<1, 3>>>>
    /\ i = 3
    /\ chains.val[0] = <<0, 1, 2, 3>>
    /\ \A x \in 0 .. 3 : representatives.val[x] = 0

\* For a mapping p of each vertex to its parent: where n steps along the
\* parent pointers lead from x.
RECURSIVE Ancestor(_, _, _)
Ancestor(p, x, n) == IF n = 0 THEN x ELSE Ancestor(p, p[x], n - 1)

\* The parent pointers form a forest: as many steps as there are vertices
\* lead from every vertex to one that is its own parent, so the only cycles
\* are the self-loops of the roots.
IsForest(p) ==
    /\ \A x \in DOMAIN p : p[x] \in DOMAIN p
    /\ \A x \in DOMAIN p :
           LET a == Ancestor(p, x, Cardinality(DOMAIN p)) IN p[a] = a

\* In a forest: the root of x's tree, the vertices on the path from x to it
\* (both ends included), and the vertices of the tree of root r.
RootOf(p, x) == Ancestor(p, x, Cardinality(DOMAIN p))

PathOf(p, x) == {Ancestor(p, x, n) : n \in 0 .. Cardinality(DOMAIN p)}

TreeOf(p, r) == {x \in DOMAIN p : RootOf(p, x) = r}

InQuickUnion == call = "components_quickunion" /\ status = "running"

\* What C13 says of the step from `if u == v` to the end of union(u, v),
\* u_root and v_root being the roots of the edge's endpoints.
LinksByRank ==
    LET p == parents.val
        q == parents'.val
        rk == ranks.val
        a == u_root
        b == v_root
    IN /\ a = RootOf(p, edges[i + 1][1])
       /\ b = RootOf(p, edges[i + 1][2])
       /\ parents'.keys = parents.keys
       /\ ranks'.keys = ranks.keys
       /\ IF a = b
          THEN q = p /\ ranks'.val = rk
          ELSE IF rk[a] # rk[b]
          THEN LET lo == IF rk[a] < rk[b] THEN a ELSE b
                   hi == IF rk[a] < rk[b] THEN b ELSE a
               IN q = [p EXCEPT ![lo] = hi] /\ ranks'.val = rk
          ELSE /\ q = [p EXCEPT ![b] = a]
               /\ ranks'.val = [rk EXCEPT ![a] = rk[a] + 1]

FindCompressesPath(e, r) ==
    LET p == parents.val
        q == parents'.val
        root == RootOf(p, e)
    IN /\ r = root
       /\ parents'.keys = parents.keys
       /\ \A x \in DOMAIN p :
              q[x] = IF x \in PathOf(p, e) THEN root ELSE p[x]
       /\ ranks' = ranks
       /\ \A x \in DOMAIN p : RootOf(q, x) = RootOf(p, x)
       /\ {TreeOf(q, RootOf(q, x)) : x \in DOMAIN q}
              = {TreeOf(p, RootOf(p, x)) : x \in DOMAIN p}

\* C14: in components_quickunion, find(v) returns the root of v's tree and
\* afterwards every vertex that was on the path from v to that root has the
\* root as its parent; find changes no other vertex's parent, no rank and
\* no vertex's root, so the partition into trees is the same before and
\* after any find.  The calls are the two of each union and the one of each
\* iteration of the last loop, which files the vertex under the root
\* returned.
C14_FindCompressesOnlyPath ==
    [][InQuickUnion =>
          /\ pc = "find_u" => FindCompressesPath(edges[i + 1][1], u_root')
          /\ pc = "find_v" => FindCompressesPath(edges[i + 1][2], v_root')
          /\ pc = "group" /\ g' = g + 1 =>
                 \E r \in Keys(sets_by_ancestor') :
                     /\ sets_by_ancestor'.val[r]
                            = Append(IF Has(sets_by_ancestor, r)
                                     THEN sets_by_ancestor.val[r] ELSE <<>>,
                                     parents.keys[g + 1])
                     /\ FindCompressesPath(parents.keys[g + 1], r)]_vars

\* The last loop has called find(3) where 3 was a grandchild of the root 0:
\* 3 is now a child of 0.
C14_Witness ==
    /\ InQuickUnion
    /\ edges = <<<<0, 1>>, <<2, 3>>, <<1, 3>>>>
    /\ pc = "group"
    /\ g = 4
    /\ parents.val = [x \in 0 .. 3 |-> 0]
    /\ sets_by_ancestor.val[0] = <<0, 1, 2, 3>>

\* C18: in components_quickunion, after any sequence of union and find
\* calls the parent pointers form a forest (the only cycles are the
\* self-loops of roots), every non-root vertex has a rank strictly smaller
\* than its parent's, and a root of rank r has at least 2^r vertices in its
\* tree; hence every recursive find reaches a root and terminates (within
\* as many calls as the root's rank, and one).
C18_ForestRankSize ==
    call = "components_quickunion" =>
        LET p == parents.val
            rk == ranks.val
        IN /\ DOMAIN p = Endpoints(edges)
           /\ DOMAIN rk = DOMAIN p
           /\ IsForest(p)
           /\ \A x \in DOMAIN p : p[x] # x => rk[x] < rk[p[x]]
           /\ \A r \in DOMAIN p :
                  p[r] = r => Cardinality(TreeOf(p, r)) >= Pow2(rk[r])
           /\ \A x \in DOMAIN p :
                  /\ Ancestor(p, x, rk[RootOf(p, x)]) = RootOf(p, x)
                  /\ find(parents, x).root = RootOf(p, x)

\* The root 0 has rank 2 and a tree of exactly 4 = 2^2 vertices, built from
\* two trees of rank 1.
C18_Witness ==
    /\ call = "components_quickunion"
    /\ edges = <<<<0, 1>>, <<2, 3>>, <<0, 2>>>>
    /\ i = 3
    /\ ranks.val[0] = 2
    /\ TreeOf(parents.val, 0) = {0, 1, 2, 3}
    /\ parents.val[3] = 2

\* The comp_dict of components_dict_alt() after n iterations of its second
\* loop over the edges.
DictAltAfter(es, vs, n) ==
    components_dict_alt_edges(
        singletons_vertices(singletons_edges(EmptyRefDict, es, 1), vs, 1),
        SubSeq(es, 1, n), 1)

\* Two dicts of lists are equal as Python compares them: the same keys and,
\* for each key, lists of the same elements in the same order.
SameLists(a, b) ==
    /\ Keys(a) = Keys(b)
    /\ \A k \in Keys(a) : ListOf(a, k) = ListOf(b, k)

\* C16: for every edge list and vertex list components_dict_alt2, which
\* compares the first elements of the two lists, performs the same merges as
\* components_dict_alt, which compares list identity: at every step two
\* live lists have equal first elements iff they are the same list (so
\* comp_dict is what components_dict_alt has after as many edges), and the
\* two functions return equal mappings.
C16_DictAlt2LikeDictAlt ==
    call = "components_dict_alt2" =>
        /\ \A a \in Keys(comp_dict) : \A b \in Keys(comp_dict) :
               (ListOf(comp_dict, a)[1] = ListOf(comp_dict, b)[1])
                   <=> (comp_dict.val[a] = comp_dict.val[b])
        /\ comp_dict = DictAltAfter(edges, vertices, i)
        /\ status = "returned" =>
               /\ SameLists(ret_dict, components_dict_alt(edges, vertices))
               /\ setofsets(ret_dict) = ReachClasses(edges, vertices)

\* components_dict_alt2() has melded the lists of 0 and 1 for the first
\* edge and then met the reversed edge, whose endpoints' lists have the same
\* first element; the supplied vertex 2 has its own list.
C16_Witness ==
    /\ call = "components_dict_alt2"
    /\ edges = <<<<0, 1>>, <<1, 0>>>>
    /\ vertices = <<2>>
    /\ i = 2
    /\ ListOf(comp_dict, 0) = <<0, 1>>
    /\ comp_dict.val[1] = comp_dict.val[0]
    /\ ListOf(comp_dict, 2) = <<2>>

\* The two iterative searches.
Searches == {"components_stack", "components_bfs"}

\* The lists of a list of lists, one after the other: for all_components,
\* the vertices handed to the collector, in the order of the calls.
RECURSIVE Flatten(_)
Flatten(lists) ==
    IF lists = <<>> THEN <<>> ELSE Head(lists) \o Flatten(Tail(lists))

NoRepeats(seq) ==
    \A a \in DOMAIN seq : \A b \in DOMAIN seq : a # b => seq[a] # seq[b]

\* What C17 says of every state of a search: a vertex is marked visited
\* exactly when it has been put on the stack or queue, it is put there at
\* most once, it is handed to the collector at most once over all the
\* component lists, the vertices put on and not yet handed over are the
\* ones waiting on the stack or queue, and at the return every vertex of the
\* adjacency mapping is visited and has been handed over exactly once.
SearchOnce ==
    call \in Searches =>
        LET pending == IF IsStack(call) THEN stack ELSE queue
            collected == Flatten(all_components)
        IN /\ visited = Range(pushed)
           /\ NoRepeats(pushed)
           /\ NoRepeats(collected)
           /\ NoRepeats(pending)
           /\ Range(collected) \cap Range(pending) = {}
           /\ Range(collected) \cup Range(pending) = Range(pushed)
           /\ visited \subseteq Keys(adj)
           /\ search_pc = "outer" => pending = <<>>
           /\ status = "returned" =>
                  /\ visited = Keys(adj)
                  /\ Range(collected) = Keys(adj)
                  /\ Len(collected) = Cardinality(Keys(adj))
                  /\ PairwiseDisjoint(ret)
                  /\ UNION ret = Keys(adj)

InSearch == call \in Searches /\ status = "running"

\* What is left to do in a search: the starts not yet taken, the vertices
\* waiting on the stack or queue, two for every vertex not yet marked (it is
\* still to be put on and taken off), and one for leaving the while loop.
SearchVariant ==
    (Len(adj.keys) - starts)
    + Len(IF IsStack(call) THEN stack ELSE queue)
    + 2 * (Cardinality(Keys(adj)) - Cardinality(visited))
    + (IF search_pc = "while" THEN 1 ELSE 0)

\* C17: in components_stack and components_bfs a vertex is marked visited
\* at the moment it is pushed or enqueued, so during one call every vertex
\* enters the stack/queue at most once and is handed to the collector
\* exactly once (no component list contains a vertex twice and no vertex
\* lands in two components); the inner while loop and the outer loop over
\* the start vertices terminate with every vertex of the adjacency mapping
\* visited.
\* Termination is stated as: a search that has not returned can take a
\* step, and every step but the return makes SearchVariant smaller without
\* making it negative.
C17_SearchOnceAndTerminates ==
    /\ []SearchOnce
    /\ [](InSearch => ENABLED NextSearch)
    /\ [][InSearch /\ status' = "running" =>
              SearchVariant' < SearchVariant /\ SearchVariant' >= 0]_vars

\* The same termination as a leads-to property under the fairness of
\* SpecSearch: the while loop of a search is left, and the call returns
\* with every vertex visited.
SearchTerminates ==
    /\ (InSearch /\ search_pc = "while") ~> (search_pc = "outer")
    /\ InSearch ~> (status = "returned" /\ visited = Keys(adj))

\* components_stack() is in its while loop on a triangle: 0 has been taken
\* off and handed over, its two neighbours were marked as they were put on
\* the stack, so that neither puts the other on again.
C17_Witness ==
    /\ call = "components_stack"
    /\ edges = <<<<0, 1>>, <<0, 2>>, <<1, 2>>>>
    /\ order = "asc"
    /\ search_pc = "while"
    /\ all_components = <<<<0>>>>
    /\ stack = <<1, 2>>
    /\ visited = {0, 1, 2}
    /\ pushed = <<0, 1, 2>>

=============================================================================
